---- MODULE Spec2Model ----
(***************************************************************************)
(* Model of the RabbitMQ client layer of Potato:                           *)
(*   services/shared_libs/RabbitMQ/AbstractRabbitMQ.py  (connection)        *)
(*   services/shared_libs/RabbitMQ/RabbitMQProducer.py  (publish)           *)
(* One manager instance is followed from construction to finalisation.     *)
(* Broker objects (pika.BlockingConnection, its channel) are library        *)
(* objects: each library call is one step whose outcome (success or the     *)
(* exception it raises) is chosen nondeterministically.                     *)
(***************************************************************************)
EXTENDS Integers, Sequences, FiniteSets

VARIABLES
    inst,        \* "none" | "ok" | "rejected" | "deleted": life of the instance
    logger,      \* TRUE once self.logger has been assigned
    params,      \* self._connection_parameters (NoParams before assignment)
    _connection, \* self._connection: 0 = None, else the id of a connection object
    _channel,    \* self._channel: 0 = None, else the id of the channel's connection
    conns,       \* broker library objects: connection id -> its state
    nconns,      \* how many connection objects BlockingConnection() has returned
    nops,        \* operations invoked on the instance so far
    last,        \* observation of the most recent operation
    _queue,      \* RabbitMQConsumer: self._queue
    _consuming,  \* RabbitMQConsumer: self._consuming
    _consumer_tag, \* RabbitMQConsumer: self._consumer_tag, 0 = None, else a tag
    consumers,   \* broker side: consumer tag -> its registration
    ntags,       \* how many consumer tags basic_consume() has returned
    loops,       \* channels on which a consume() call is blocked in start_consuming()
    hinst,       \* HealthCheckMixin: "none" | "starting" | "ok" | "rejected"
    ready,       \* HealthCheckMixin: the field self._ready
    _status,     \* HealthCheckMixin: self._status
    _status_code, \* HealthCheckMixin: self._status_code
    _health_port, \* HealthCheckMixin: self._health_port (0 before assignment)
    _start_time, \* HealthCheckMixin: "unset" | "set": self._start_time
    listening,   \* the thread running the Flask application has been started
    request,     \* the GET /status request being handled and what it has read
    held,        \* the (status, response code) pairs the fields held during it
    hops,        \* owner assignments and requests so far
    hlast,       \* observation of the most recent health operation
    properties,  \* RabbitMQStatefulMixin: properties of the delivery at hand
    ncalls,      \* calls of _get_session_id_from_properties so far
    slast        \* observation of the most recent such call

\* the state of the base class and of the producer
bvars == <<inst, logger, params, _connection, _channel, conns, nconns, nops, last>>
\* the state RabbitMQConsumer adds
cvars == <<_queue, _consuming, _consumer_tag, consumers, ntags, loops>>

\* the state of HealthCheckMixin and of its request handlers
hvars == <<hinst, ready, _status, _status_code, _health_port, _start_time,
           listening, request, held, hops, hlast>>
\* the state around RabbitMQStatefulMixin
svars == <<properties, ncalls, slast>>

vars == <<inst, logger, params, _connection, _channel, conns, nconns, nops, last,
          _queue, _consuming, _consumer_tag, consumers, ntags, loops,
          hinst, ready, _status, _status_code, _health_port, _start_time,
          listening, request, held, hops, hlast,
          properties, ncalls, slast>>

----------------------------------------------------------------------------
(* Bounds of the model *)

\* connection objects the broker library hands out during one life
MaxConns == 2
\* operations invoked on one instance
MaxOps == 4
\* consumer tags the broker library hands out during one life
MaxTags == 2
\* calls of _get_session_id_from_properties
MaxCalls == 2

----------------------------------------------------------------------------
(* Python values handed to the constructor: a type tag, a character         *)
(* sequence (for str) and a number (for int, bool and float; a float is     *)
(* kept in tenths, so 0.5 is 5).                                            *)

Str(s) == [t |-> "str", s |-> s, n |-> 0]
IntV(n) == [t |-> "int", s |-> <<>>, n |-> n]
FloatV(tenths) == [t |-> "float", s |-> <<>>, n |-> tenths]
BoolV(b) == [t |-> "bool", s |-> <<>>, n |-> IF b THEN 1 ELSE 0]
NoneV == [t |-> "NoneType", s |-> <<>>, n |-> 0]
ListV == [t |-> "list", s |-> <<>>, n |-> 0]

Whitespace == {" ", "\n", "\t"}

\* str.isspace(): at least one character and all of them whitespace
isspace(v) == Len(v.s) > 0 /\ \A i \in 1..Len(v.s) : v.s[i] \in Whitespace

\* isinstance(v, str); isinstance(v, int) (bool is a subclass of int);
\* isinstance(v, float | int)
IsStr(v) == v.t = "str"
IsInt(v) == v.t \in {"int", "bool"}
IsFloatOrInt(v) == v.t \in {"float", "int", "bool"}

Hosts == {Str(<<"h">>), Str(<<>>), Str(<<" ">>), Str(<<"\n", "\t">>),
          IntV(123), NoneV}
Ports == {IntV(5672), BoolV(FALSE), IntV(0), IntV(-1), FloatV(11),
          Str(<<"a">>), NoneV}
Attempts == {IntV(1), IntV(3), BoolV(TRUE), IntV(0), IntV(-1), FloatV(11),
             Str(<<"a">>), NoneV}
Delays == {FloatV(1), IntV(5), FloatV(0), IntV(-1000), BoolV(FALSE),
           Str(<<"a">>), ListV}

NoError == [kind |-> "none", msg |-> ""]
Error(kind, msg) == [kind |-> kind, msg |-> msg]

\* The validation chain of __init__: the first failing check decides.
ValidationMutantPortZero(host, port, connection_attempts, retry_delay) ==
    IF ~IsStr(host) THEN Error("TypeError", "host must be a string.")
    ELSE IF Len(host.s) = 0 \/ isspace(host)
        THEN Error("ValueError", "host must not be empty.")
    ELSE IF ~IsInt(port) THEN Error("TypeError", "port must be a positive integer.")
    ELSE IF port.n < 0 THEN Error("ValueError", "port must be a positive integer.")
    ELSE IF ~IsInt(connection_attempts)
        THEN Error("TypeError", "max_retries must be a positive integer.")
    ELSE IF connection_attempts.n <= 0
        THEN Error("ValueError", "max_retries must be a positive integer.")
    ELSE IF ~IsFloatOrInt(retry_delay)
        THEN Error("TypeError", "retry_delay must be a positive float.")
    ELSE IF retry_delay.n <= 0
        THEN Error("ValueError", "retry_delay must be a positive float.")
    ELSE NoError

Validation(host, port, connection_attempts, retry_delay) ==
    IF ~IsStr(host) THEN Error("TypeError", "host must be a string.")
    ELSE IF Len(host.s) = 0 \/ isspace(host)
        THEN Error("ValueError", "host must not be empty.")
    ELSE IF ~IsInt(port) THEN Error("TypeError", "port must be a positive integer.")
    ELSE IF port.n <= 0 THEN Error("ValueError", "port must be a positive integer.")
    ELSE IF ~IsInt(connection_attempts)
        THEN Error("TypeError", "max_retries must be a positive integer.")
    ELSE IF connection_attempts.n <= 0
        THEN Error("ValueError", "max_retries must be a positive integer.")
    ELSE IF ~IsFloatOrInt(retry_delay)
        THEN Error("TypeError", "retry_delay must be a positive float.")
    ELSE IF retry_delay.n <= 0
        THEN Error("ValueError", "retry_delay must be a positive float.")
    ELSE NoError

----------------------------------------------------------------------------
(* State of the library objects and of the observation record *)

NoParams == [host |-> NoneV, port |-> NoneV,
             connection_attempts |-> NoneV, retry_delay |-> NoneV]

ConnIds == 1..MaxConns

\* A connection object and the channel opened on it.
FreshConn == [created |-> FALSE, is_open |-> FALSE,
              chan_created |-> FALSE, chan_open |-> FALSE, close_calls |-> 0]

\* Arguments of a publish() call; a *_given flag of FALSE means the caller
\* left the keyword out and the default of the signature applies.
NoPublish == [message |-> "", routing_key |-> "",
              exchange |-> "", exchange_given |-> FALSE,
              durable |-> FALSE, durable_given |-> FALSE]

\* What one operation did: its name, its arguments, what it returned or
\* raised, what a library call or hook raised inside it, the library calls
\* and hooks it ran (in order), the arguments of its basic_publish calls, and
\* what it logged.
\* For the consumer: the arguments of the call, and the arguments of its
\* basic_cancel, basic_consume and _handle_unacknowledged_messages calls, and
\* what its basic_cancel calls returned.
Obs(op) == [op |-> op, args |-> NoParams, pub |-> NoPublish,
            ret |-> "None", exc |-> NoError, caught |-> "none",
            trace |-> <<>>, sent |-> <<>>, log |-> <<>>,
            call |-> <<>>, cancelled |-> <<>>, returned |-> <<>>,
            registered |-> <<>>, handled |-> <<>>]

\* HealthCheckMixin before its construction: no field exists, no request
NoRequest == [pc |-> "idle", status |-> NoneV]
NoResponse == [op |-> "none", arg |-> NoneV, exc |-> NoError, code |-> 0,
               body |-> "", status |-> NoneV]
NoHealth ==
    /\ hinst = "none"
    /\ ready = FALSE
    /\ _status = NoneV
    /\ _status_code = NoneV
    /\ _health_port = 0
    /\ _start_time = "unset"
    /\ listening = FALSE
    /\ request = NoRequest
    /\ held = {}
    /\ hops = 0
    /\ hlast = NoResponse

\* A value handed in as message properties: its type, whether it has
\* headers (a mapping, not None), the value under 'session_id' (Absent when
\* the key is missing) and whether there is another key.
Absent == [t |-> "absent", s |-> <<>>, n |-> 0]
NoHeaders == [given |-> FALSE, session_id |-> Absent, other |-> FALSE]
NoProperties == [type |-> "NoneType", headers |-> NoHeaders]

\* no delivery at hand, _get_session_id_from_properties not called yet
NoCallYet == [properties |-> NoProperties, ret |-> NoneV, exc |-> NoError,
              log |-> <<>>]
NoSession ==
    /\ properties = NoProperties
    /\ ncalls = 0
    /\ slast = NoCallYet

TagIds == 1..MaxTags
\* a consumer tag the broker has not handed out yet
NoConsumer == [state |-> "none", chan |-> 0, queue |-> NoneV,
               callback |-> "None", auto_ack |-> FALSE]

Init ==
    /\ inst = "none"
    /\ logger = FALSE
    /\ params = NoParams
    /\ _connection = 0
    /\ _channel = 0
    /\ conns = [c \in ConnIds |-> FreshConn]
    /\ nconns = 0
    /\ nops = 0
    /\ last = Obs("none")
    /\ _queue = NoneV
    /\ _consuming = FALSE
    /\ _consumer_tag = 0
    /\ consumers = [t \in TagIds |-> NoConsumer]
    /\ ntags = 0
    /\ loops = {}
    /\ NoHealth
    /\ NoSession

----------------------------------------------------------------------------
(* AbstractRabbitMQ.__init__ *)

New(host, port, connection_attempts, retry_delay) ==
    LET e == Validation(host, port, connection_attempts, retry_delay)
        given == [host |-> host, port |-> port,
                  connection_attempts |-> connection_attempts,
                  retry_delay |-> retry_delay]
    IN  /\ inst = "none"
        /\ nops' = nops + 1
        /\ last' = [Obs("__init__") EXCEPT !.args = given, !.exc = e]
        /\ IF e = NoError
           THEN /\ inst' = "ok"
                /\ logger' = TRUE
                /\ _connection' = 0
                /\ _channel' = 0
                /\ params' = given
           ELSE /\ inst' = "rejected"
                /\ UNCHANGED <<logger, _connection, _channel, params>>
        /\ UNCHANGED <<conns, nconns>>

Construct ==
    \E host \in Hosts, port \in Ports, connection_attempts \in Attempts,
       retry_delay \in Delays :
        New(host, port, connection_attempts, retry_delay)

----------------------------------------------------------------------------
(* AbstractRabbitMQ._ready *)

\* Python's `a and b and c and d`: the first falsy operand, else the last.
\* Library objects are truthy, None is falsy, is_open is a bool.
_readyValue ==
    IF _connection = 0 THEN "None"
    ELSE IF ~conns[_connection].is_open THEN "False"
    ELSE IF _channel = 0 THEN "None"
    ELSE IF ~conns[_channel].chan_open THEN "False"
    ELSE "True"

\* truth value of self._ready()
_ready == _readyValue = "True"

----------------------------------------------------------------------------
(* AbstractRabbitMQ.connect *)

Stages == <<"BlockingConnection", "channel", "_setup">>
Failures == {"AMQPConnectionError", "Exception"}

\* How a connect() call goes: every library call and the hook succeed
\* (failed_at = 0), or the call at position failed_at of Stages raises exc.
ConnectOutcomes ==
    {[failed_at |-> 0, exc |-> "none"]} \cup
    [failed_at : 1..Len(Stages), exc : Failures]

\* the call at position k of Stages was made and returned
Passed(o, k) == o.failed_at = 0 \/ o.failed_at > k

\* The calls connect() makes, in order, for outcome o.
ConnectTraceRetryLoop(o) ==
    IF o.failed_at = 1 /\ o.exc = "AMQPConnectionError"
    THEN <<"BlockingConnection", "sleep", "BlockingConnection">>
    ELSE SubSeq(Stages, 1, IF o.failed_at = 0 THEN Len(Stages) ELSE o.failed_at)

ConnectTraceSetupTwice(o) ==
    IF o.failed_at = 0
    THEN <<"BlockingConnection", "channel", "_setup", "_setup">>
    ELSE SubSeq(Stages, 1, o.failed_at)

ConnectTrace(o) ==
    SubSeq(Stages, 1, IF o.failed_at = 0 THEN Len(Stages) ELSE o.failed_at)

\* return value: True, False on AMQPConnectionError, nothing when re-raising
ConnectReturn(o) ==
    IF o.failed_at = 0 THEN "True"
    ELSE IF o.exc = "AMQPConnectionError" THEN "False"
    ELSE "raised"

ConnectRaisedOnExhaustion(o) ==
    IF o.failed_at # 0
    THEN Error(IF o.exc = "AMQPConnectionError"
               THEN "RabbitMQConnectionError" ELSE o.exc, "")
    ELSE NoError

ConnectRaised(o) ==
    IF o.failed_at # 0 /\ o.exc # "AMQPConnectionError"
    THEN Error(o.exc, "") ELSE NoError

ConnectLog(o) ==
    <<"Attempting to connect to RabbitMQ",
      IF o.failed_at = 0 THEN "Connected to RabbitMQ successfully"
      ELSE IF o.exc = "AMQPConnectionError"
          THEN "Failed to connect to RabbitMQ after attempts."
      ELSE "Failed to connect to RabbitMQ: e">>

connect(o) ==
    LET new == nconns + 1 IN
    /\ inst = "ok"
    /\ nops < MaxOps
    /\ Passed(o, 1) => nconns < MaxConns
    /\ nops' = nops + 1
    /\ last' = [Obs("connect") EXCEPT !.args = params,
                                      !.ret = ConnectReturn(o),
                                      !.exc = ConnectRaised(o),
                                      !.caught = o.exc,
                                      !.trace = ConnectTrace(o),
                                      !.log = ConnectLog(o)]
    \* self._connection = pika.BlockingConnection(self._connection_parameters)
    /\ _connection' = IF Passed(o, 1) THEN new ELSE _connection
    /\ nconns' = IF Passed(o, 1) THEN new ELSE nconns
    \* self._channel = self._connection.channel()
    /\ _channel' = IF Passed(o, 2) THEN new ELSE _channel
    /\ conns' = IF Passed(o, 1)
                THEN [conns EXCEPT ![new] =
                        [created |-> TRUE, is_open |-> TRUE,
                         chan_created |-> Passed(o, 2),
                         chan_open |-> Passed(o, 2), close_calls |-> 0]]
                ELSE conns
    /\ UNCHANGED <<inst, logger, params>>

Connect == \E o \in ConnectOutcomes : connect(o)

----------------------------------------------------------------------------
(* AbstractRabbitMQ.disconnect and __del__ *)

\* `self._connection and self._connection.is_open`
ConnectionIsOpen == _connection # 0 /\ conns[_connection].is_open

\* pika's Connection.close(): the connection and its channel are closed
Closed(c) == [c EXCEPT !.is_open = FALSE, !.chan_open = FALSE,
                       !.close_calls = @ + 1]

DisconnectConnsNoClose == conns

DisconnectConnsAlways ==
    IF _connection # 0
    THEN [conns EXCEPT ![_connection] = Closed(@)]
    ELSE conns

\* the library objects after disconnect()
DisconnectConns ==
    IF ConnectionIsOpen
    THEN [conns EXCEPT ![_connection] = Closed(@)]
    ELSE conns

DisconnectTrace == IF ConnectionIsOpen THEN <<"close">> ELSE <<>>

DisconnectLog ==
    <<"Closing RabbitMQ connection.",
      IF ConnectionIsOpen THEN "Connection closed."
      ELSE "Connection already closed.">>

disconnect ==
    /\ inst = "ok"
    /\ nops < MaxOps
    /\ nops' = nops + 1
    /\ conns' = DisconnectConns
    /\ last' = [Obs("disconnect") EXCEPT !.trace = DisconnectTrace,
                                         !.log = DisconnectLog]
    /\ UNCHANGED <<inst, logger, params, _connection, _channel, nconns>>

\* __del__ runs when the object is finalised, also when __init__ raised
\* before self.logger was assigned: self.logger is then an AttributeError.
DelRaised ==
    IF logger THEN NoError
    ELSE Error("AttributeError", "object has no attribute 'logger'")

__del__ ==
    /\ inst \in {"ok", "rejected"}
    /\ nops' = nops + 1
    /\ inst' = "deleted"
    /\ IF DelRaised = NoError
       THEN /\ conns' = DisconnectConns
            /\ last' = [Obs("__del__") EXCEPT
                            !.trace = <<"disconnect">> \o DisconnectTrace,
                            !.log = <<"Deleting RabbitMQ instance.">>
                                    \o DisconnectLog]
       ELSE /\ conns' = conns
            /\ last' = [Obs("__del__") EXCEPT !.exc = DelRaised]
    /\ UNCHANGED <<logger, params, _connection, _channel, nconns>>

----------------------------------------------------------------------------
(* RabbitMQProducer.publish and _basic_publish *)

Messages == {"m1", "m2"}
RoutingKeys == {"k1", "k2"}
Exchanges == {"", "ex"}

\* the calls a caller can write: exchange and durable are optional keywords
PublishCalls ==
    {a \in [message : Messages, routing_key : RoutingKeys,
            exchange : Exchanges, exchange_given : BOOLEAN,
            durable : BOOLEAN, durable_given : BOOLEAN] :
        /\ ~a.exchange_given => a.exchange = ""
        /\ ~a.durable_given => a.durable = FALSE}

\* what channel.basic_publish does with the call
PublishOutcomes == {"ok", "AMQPChannelError", "AMQPConnectionError", "Exception"}

\* publish(message, routing_key, exchange='', durable=True): the values of
\* the four parameters after the defaults of the signature are applied
Bound(a) ==
    [message |-> a.message, routing_key |-> a.routing_key,
     exchange |-> IF a.exchange_given THEN a.exchange ELSE "",
     durable |-> IF a.durable_given THEN a.durable ELSE TRUE]

\* pika.DeliveryMode.Persistent if durable else pika.DeliveryMode.Transient
DeliveryModeInverted(durable) == IF durable THEN "Transient" ELSE "Persistent"

DeliveryMode(durable) == IF durable THEN "Persistent" ELSE "Transient"

\* publish() hands (exchange, routing_key, message, durable) to
\* _basic_publish(exchange, routing_key, body, durable), which issues
\* channel.basic_publish(exchange=, routing_key=, body=, properties=)
BasicPublish(b) ==
    [exchange |-> b.exchange, routing_key |-> b.routing_key, body |-> b.message,
     delivery_mode |-> DeliveryMode(b.durable)]

\* the guard of _basic_publish: `if not self._ready()`
PublishAllowedAlways == TRUE

PublishAllowed == _ready

\* the basic_publish calls one _basic_publish makes, given the outcome of
\* the first
PublishSent(b, o) == <<BasicPublish(b)>>

\* the except clauses of _basic_publish: log, then `raise e`
PublishRaisedSwallow(o) ==
    IF o = "AMQPChannelError" THEN NoError
    ELSE IF o = "ok" THEN NoError ELSE Error(o, "")

PublishRaised(o) == IF o = "ok" THEN NoError ELSE Error(o, "")

PublishLog(o) ==
    IF o = "ok" THEN <<"Published message to exchange">>
    ELSE IF o = "AMQPChannelError" THEN <<"AMQP Channel Error during publish">>
    ELSE IF o = "AMQPConnectionError"
        THEN <<"AMQP Connection Error during publish">>
    ELSE <<"An unexpected error occurred during publish">>

publish(a, o) ==
    /\ inst = "ok"
    /\ nops < MaxOps
    /\ nops' = nops + 1
    /\ IF ~PublishAllowed
       THEN /\ o = "ok"
            /\ last' = [Obs("publish") EXCEPT
                  !.pub = a,
                  !.ret = "raised",
                  !.exc = Error("RuntimeError",
                      "RabbitMQProducer is not connected. Call connect() first."),
                  !.log = <<"RabbitMQProducer is not connected.">>]
       ELSE /\ last' = [Obs("publish") EXCEPT
                  !.pub = a,
                  !.ret = IF o = "ok" THEN "None" ELSE "raised",
                  !.exc = PublishRaised(o),
                  !.caught = IF o = "ok" THEN "none" ELSE o,
                  !.trace = [i \in 1..Len(PublishSent(Bound(a), o))
                                |-> "basic_publish"],
                  !.sent = PublishSent(Bound(a), o),
                  !.log = PublishLog(o)]
    /\ UNCHANGED <<inst, logger, params, _connection, _channel, conns, nconns>>

Publish == \E a \in PublishCalls, o \in PublishOutcomes : publish(a, o)

----------------------------------------------------------------------------
(* What happens to the library objects outside the manager's own calls *)

\* the broker (or the network) closes the connection the manager holds
ConnectionLost ==
    /\ inst = "ok"
    /\ nops < MaxOps
    /\ ConnectionIsOpen
    /\ nops' = nops + 1
    /\ conns' = [conns EXCEPT ![_connection].is_open = FALSE,
                              ![_connection].chan_open = FALSE]
    /\ last' = Obs("connection_lost")
    /\ UNCHANGED <<inst, logger, params, _connection, _channel, nconns>>

\* the channel the manager holds is closed (instance._channel.close())
ChannelClosed ==
    /\ inst = "ok"
    /\ nops < MaxOps
    /\ _channel # 0
    /\ conns[_channel].chan_open
    /\ nops' = nops + 1
    /\ conns' = [conns EXCEPT ![_channel].chan_open = FALSE]
    /\ last' = Obs("channel_closed")
    /\ UNCHANGED <<inst, logger, params, _connection, _channel, nconns>>

\* the owner drops the channel reference (instance._channel = None)
ChannelDropped ==
    /\ inst = "ok"
    /\ nops < MaxOps
    /\ _channel # 0
    /\ nops' = nops + 1
    /\ _channel' = 0
    /\ last' = Obs("channel_dropped")
    /\ UNCHANGED <<inst, logger, params, _connection, conns, nconns>>

\* The base class and the producer: the consumer's fields do not exist there.
Next ==
    \/ Construct /\ UNCHANGED <<cvars, hvars, svars>>
    \/ Connect /\ UNCHANGED <<cvars, hvars, svars>>
    \/ disconnect /\ UNCHANGED <<cvars, hvars, svars>>
    \/ __del__ /\ UNCHANGED <<cvars, hvars, svars>>
    \/ Publish /\ UNCHANGED <<cvars, hvars, svars>>
    \/ ConnectionLost /\ UNCHANGED <<cvars, hvars, svars>>
    \/ ChannelClosed /\ UNCHANGED <<cvars, hvars, svars>>
    \/ ChannelDropped /\ UNCHANGED <<cvars, hvars, svars>>

Spec == Init /\ [][Next]_vars

----------------------------------------------------------------------------
(* RabbitMQConsumer.__init__ *)

\* values handed in as queue names
QueueNames == {Str(<<"q", "1">>), Str(<<"q", "2">>), Str(<<>>), NoneV}
\* queue names a subscriber is constructed with (the constructor checks none)
InitialQueues == {Str(<<"q", "1">>), Str(<<>>)}

\* the configuration the subscribers of the model are constructed with
ConsumerParams == [host |-> Str(<<"h">>), port |-> IntV(5672),
                   connection_attempts |-> IntV(3), retry_delay |-> IntV(5)]

\* The state after ConcreteConsumer(queue_name, ...) with a valid
\* configuration: the three fields, then AbstractRabbitMQ.__init__.
InitC ==
    /\ \E queue_name \in InitialQueues :
          /\ _queue = queue_name
          /\ last = [Obs("__init__") EXCEPT !.args = ConsumerParams,
                                            !.call = <<queue_name>>]
    /\ _consuming = FALSE
    /\ _consumer_tag = 0
    /\ inst = "ok"
    /\ logger = TRUE
    /\ params = ConsumerParams
    /\ _connection = 0
    /\ _channel = 0
    /\ conns = [c \in ConnIds |-> FreshConn]
    /\ nconns = 0
    /\ nops = 0
    /\ consumers = [t \in TagIds |-> NoConsumer]
    /\ ntags = 0
    /\ loops = {}
    /\ NoHealth
    /\ NoSession

----------------------------------------------------------------------------
(* The broker's view of the consumers *)

ChannelIsOpen(c) == conns[c].is_open /\ conns[c].chan_open

\* consumer t is registered at the broker and its channel is alive
Active(t) == consumers[t].state = "registered" /\ ChannelIsOpen(consumers[t].chan)

ActiveConsumers == {t \in TagIds : Active(t)}

----------------------------------------------------------------------------
(* RabbitMQConsumer.stop_consuming *)

\* what basic_cancel returned: the messages still pending for the consumer
Pending == <<"m1">>

\* How a stop_consuming() call goes: basic_cancel returns an empty list or
\* pending messages, or raises; the handler of the pending messages returns
\* or raises.
StopOutcomes == [cancel : {"empty", "unacked", "Exception"},
                 handler : {"ok", "Exception"}]
NoStop == [cancel |-> "empty", handler |-> "ok"]

\* the guard of stop_consuming: self._consumer_tag and self._ready()
StopRuns == _consumer_tag # 0 /\ _ready

\* basic_cancel(self._consumer_tag) on self._channel finds the consumer only
\* when it was registered on that channel
CancelHits ==
    /\ consumers[_consumer_tag].state = "registered"
    /\ consumers[_consumer_tag].chan = _channel

\* the outcomes stop_consuming() can have in the current state
StopPossible(o) ==
    IF ~StopRuns THEN o = NoStop
    ELSE /\ o.cancel = "unacked" => CancelHits
         /\ o.cancel # "unacked" => o.handler = "ok"

StopReturned(o) == IF o.cancel = "unacked" THEN Pending ELSE <<>>

StopTraceClearsFirst(o) ==
    <<"stop_consuming">> \o
    (IF ~StopRuns THEN <<>>
     ELSE <<"basic_cancel", "clear">> \o
          (IF o.cancel # "Exception" /\ StopReturned(o) # <<>>
           THEN <<"_handle_unacknowledged_messages">> ELSE <<>>))

StopTrace(o) ==
    <<"stop_consuming">> \o
    (IF ~StopRuns THEN <<>>
     ELSE <<"basic_cancel">> \o
          (IF o.cancel # "Exception" /\ StopReturned(o) # <<>>
           THEN <<"_handle_unacknowledged_messages">> ELSE <<>>) \o
          <<"clear">>)

StopCancelled == IF StopRuns THEN <<[tag |-> _consumer_tag, chan |-> _channel]>>
                 ELSE <<>>

\* what the basic_cancel calls of stop_consuming() returned
StopReturns(o) ==
    IF StopRuns /\ o.cancel # "Exception" THEN <<StopReturned(o)>> ELSE <<>>

StopHandled(o) ==
    IF StopRuns /\ o.cancel # "Exception" /\ StopReturned(o) # <<>>
    THEN <<StopReturned(o)>> ELSE <<>>

StopRaised(o) ==
    IF ~StopRuns THEN NoError
    ELSE IF o.cancel = "Exception" THEN Error("Exception", "basic_cancel")
    ELSE IF o.cancel = "unacked" /\ o.handler = "Exception"
        THEN Error("Exception", "_handle_unacknowledged_messages")
    ELSE NoError

StopLog(o) ==
    IF ~StopRuns THEN <<>>
    ELSE (IF o.cancel = "Exception" THEN <<>>
          ELSE <<"Stopped consuming messages from queue">>) \o
         (IF StopRaised(o) # NoError THEN <<"Error stopping consumer">>
          ELSE <<>>)

\* the broker's consumers after stop_consuming()
StopConsumers(o) ==
    IF StopRuns /\ o.cancel # "Exception" /\ CancelHits
    THEN [consumers EXCEPT ![_consumer_tag].state = "cancelled"]
    ELSE consumers

\* the finally block: both fields are cleared when the guard held
StopTagKept == _consumer_tag

StopTag == IF StopRuns THEN 0 ELSE _consumer_tag
StopFlag == IF StopRuns THEN FALSE ELSE _consuming

stop_consuming(o) ==
    /\ inst = "ok"
    /\ nops < MaxOps
    /\ StopPossible(o)
    /\ nops' = nops + 1
    /\ consumers' = StopConsumers(o)
    /\ _consumer_tag' = StopTag
    /\ _consuming' = StopFlag
    /\ last' = [Obs("stop_consuming") EXCEPT !.trace = StopTrace(o),
                                             !.cancelled = StopCancelled,
                                             !.returned = StopReturns(o),
                                             !.handled = StopHandled(o),
                                             !.exc = StopRaised(o),
                                             !.log = StopLog(o)]
    /\ UNCHANGED <<inst, logger, params, _connection, _channel, conns, nconns,
                   _queue, ntags, loops>>

Stop == \E o \in StopOutcomes : stop_consuming(o)

----------------------------------------------------------------------------
(* RabbitMQConsumer.consume *)

Callbacks == {"None", "custom", "not_callable"}
ConsumeCalls == [auto_ack : BOOLEAN, callback : Callbacks,
                 restart_if_running : BOOLEAN]
ConsumeFailures == {"AMQPChannelError", "AMQPConnectionError", "Exception"}

\* How a consume() call goes: how its stop_consuming() goes, and whether
\* basic_consume returns a tag or raises.
ConsumeOutcomes == [stop : StopOutcomes, consume : {"ok"} \cup ConsumeFailures]

\* the branch of consume() that ends the call or blocks it
ConsumePath(a, o) ==
    IF ~_ready THEN "not_ready"
    ELSE IF _consuming /\ ~a.restart_if_running THEN "ignored"
    ELSE IF _consuming /\ StopRaised(o.stop) # NoError THEN "stop_raised"
    ELSE IF a.callback = "not_callable" THEN "bad_callback"
    ELSE IF o.consume # "ok" THEN "consume_raised"
    ELSE "started"

\* consume() ran its stop_consuming(); it reached basic_consume
Restarts(a) == _ready /\ _consuming /\ a.restart_if_running
Registers(a, o) == ConsumePath(a, o) \in {"consume_raised", "started"}

\* the outcomes consume() can have in the current state
ConsumePossible(a, o) ==
    /\ IF Restarts(a) THEN StopPossible(o.stop) ELSE o.stop = NoStop
    /\ ~Registers(a, o) => o.consume = "ok"

\* callback or self._callback
CallbackAlwaysDefault(a) == "_callback"

Callback(a) == IF a.callback = "None" THEN "_callback" ELSE a.callback

\* the arguments of basic_consume
BasicConsume(a) == [queue |-> _queue, on_message_callback |-> Callback(a),
                    auto_ack |-> a.auto_ack]

ConsumeTrace(a, o) ==
    (IF Restarts(a) THEN StopTrace(o.stop) ELSE <<>>) \o
    (IF Registers(a, o) THEN <<"basic_consume">> ELSE <<>>) \o
    (IF ConsumePath(a, o) = "started" THEN <<"start_consuming">> ELSE <<>>)

ConsumeRaisedUnready(a, o) ==
    CASE ConsumePath(a, o) = "stop_raised" -> StopRaised(o.stop)
      [] ConsumePath(a, o) = "bad_callback" ->
            Error("TypeError", "callback must be a callable object or None.")
      [] ConsumePath(a, o) = "consume_raised" -> Error(o.consume, "basic_consume")
      [] OTHER -> NoError

ConsumeRaised(a, o) ==
    CASE ConsumePath(a, o) = "not_ready" ->
            Error("RuntimeError",
                  "RabbitMQProducer is not connected. Call connect() first.")
      [] ConsumePath(a, o) = "stop_raised" -> StopRaised(o.stop)
      [] ConsumePath(a, o) = "bad_callback" ->
            Error("TypeError", "callback must be a callable object or None.")
      [] ConsumePath(a, o) = "consume_raised" -> Error(o.consume, "basic_consume")
      [] OTHER -> NoError

ConsumeLog(a, o) ==
    (IF ~_ready THEN <<"RabbitMQProducer is not connected.">>
     ELSE IF _consuming /\ ~a.restart_if_running
        THEN <<"Consumer is already consuming messages from the queue.">>
     ELSE IF _consuming
        THEN <<"Consumer is already consuming messages from the queue. Restarting...">>
             \o StopLog(o.stop)
     ELSE <<>>) \o
    (CASE ConsumePath(a, o) = "started" -> <<"Consuming messages from queue">>
       [] ConsumePath(a, o) = "consume_raised" /\ o.consume = "AMQPChannelError" ->
            <<"AMQP Channel Error during consume">>
       [] ConsumePath(a, o) = "consume_raised" /\ o.consume = "AMQPConnectionError" ->
            <<"AMQP Connection Error during consume">>
       [] ConsumePath(a, o) = "consume_raised" /\ o.consume = "Exception" ->
            <<"An unexpected error occurred during consume">>
       [] OTHER -> <<>>)

\* the tag basic_consume hands out
NewTag == ntags + 1

\* the broker's consumers after consume()
ConsumeConsumers(a, o) ==
    LET stopped == IF Restarts(a) THEN StopConsumers(o.stop) ELSE consumers
    IN  IF ConsumePath(a, o) = "started"
        THEN [stopped EXCEPT ![NewTag] =
                 [state |-> "registered", chan |-> _channel,
                  queue |-> _queue, callback |-> Callback(a),
                  auto_ack |-> a.auto_ack]]
        ELSE stopped

\* self._consumer_tag and self._consuming after consume()
ConsumeTagRestartsAlways(a, o) ==
    IF ConsumePath(a, o) = "started" THEN NewTag
    ELSE IF _ready /\ _consuming THEN StopTag
    ELSE _consumer_tag

ConsumeTag(a, o) ==
    IF ConsumePath(a, o) = "started" THEN NewTag
    ELSE IF Restarts(a) THEN StopTag
    ELSE _consumer_tag

ConsumeFlagKeptOnRestart(a, o) ==
    IF ConsumePath(a, o) = "started" THEN TRUE
    ELSE _consuming

ConsumeFlag(a, o) ==
    IF ConsumePath(a, o) = "started" THEN TRUE
    ELSE IF Restarts(a) THEN StopFlag
    ELSE _consuming

\* consume() up to the point where it returns, raises, or blocks in
\* start_consuming(); the end of a blocked call is LoopReturns or LoopRaises.
consume(a, o) ==
    /\ inst = "ok"
    /\ nops < MaxOps
    /\ ConsumePossible(a, o)
    /\ ConsumePath(a, o) = "started" => ntags < MaxTags
    /\ nops' = nops + 1
    /\ consumers' = ConsumeConsumers(a, o)
    /\ _consumer_tag' = ConsumeTag(a, o)
    /\ _consuming' = ConsumeFlag(a, o)
    /\ ntags' = IF ConsumePath(a, o) = "started" THEN NewTag ELSE ntags
    /\ loops' = IF ConsumePath(a, o) = "started" THEN loops \cup {_channel}
                ELSE loops
    /\ last' = [Obs("consume") EXCEPT
                   !.call = <<a>>,
                   !.trace = ConsumeTrace(a, o),
                   !.cancelled = IF Restarts(a) THEN StopCancelled ELSE <<>>,
                   !.returned = IF Restarts(a) THEN StopReturns(o.stop) ELSE <<>>,
                   !.handled = IF Restarts(a) THEN StopHandled(o.stop) ELSE <<>>,
                   !.registered = IF Registers(a, o) THEN <<BasicConsume(a)>>
                                  ELSE <<>>,
                   !.ret = IF ConsumePath(a, o) = "started" THEN "blocked"
                           ELSE "None",
                   !.exc = ConsumeRaised(a, o),
                   !.log = ConsumeLog(a, o)]
    /\ UNCHANGED <<inst, logger, params, _connection, _channel, conns, nconns,
                   _queue>>

Consume == \E a \in ConsumeCalls, o \in ConsumeOutcomes : consume(a, o)

\* start_consuming() returns once its channel has no consumer left
LoopReturns ==
    \E c \in loops :
        /\ ChannelIsOpen(c)
        /\ \A t \in TagIds :
              ~(consumers[t].state = "registered" /\ consumers[t].chan = c)
        /\ loops' = loops \ {c}
        /\ last' = [Obs("consume_end") EXCEPT !.ret = "None"]
        /\ UNCHANGED <<inst, logger, params, _connection, _channel, conns,
                       nconns, nops, _queue, _consuming, _consumer_tag,
                       consumers, ntags>>

\* start_consuming() raises once its channel or connection is closed;
\* consume() logs the error and raises it again
LoopRaises ==
    \E c \in loops, e \in {"AMQPChannelError", "AMQPConnectionError"} :
        /\ ~ChannelIsOpen(c)
        /\ loops' = loops \ {c}
        /\ last' = [Obs("consume_end") EXCEPT
                       !.exc = Error(e, "start_consuming"),
                       !.log = <<IF e = "AMQPChannelError"
                                 THEN "AMQP Channel Error during consume"
                                 ELSE "AMQP Connection Error during consume">>]
        /\ UNCHANGED <<inst, logger, params, _connection, _channel, conns,
                       nconns, nops, _queue, _consuming, _consumer_tag,
                       consumers, ntags>>

----------------------------------------------------------------------------
(* RabbitMQConsumer.queue (setter) *)

\* the checks of the setter: isinstance(value, str), then `not value`
QueueRejectedAllowsEmpty(value) ==
    IF ~IsStr(value) THEN Error("TypeError", "queue_name must be a string.")
    ELSE NoError

QueueRejected(value) ==
    IF ~IsStr(value) THEN Error("TypeError", "queue_name must be a string.")
    ELSE IF Len(value.s) = 0
        THEN Error("ValueError", "queue_name must not be empty.")
    ELSE NoError

\* value != self._queue and self._consumer_tag and self._consuming
QueueStopsSameName(value) ==
    QueueRejected(value) = NoError /\ _consumer_tag # 0 /\ _consuming

QueueStops(value) ==
    QueueRejected(value) = NoError /\ value # _queue /\ _consumer_tag # 0
    /\ _consuming

QueueRaised(value, o) ==
    IF QueueRejected(value) # NoError THEN QueueRejected(value)
    ELSE IF QueueStops(value) THEN StopRaised(o)
    ELSE NoError

QueueTrace(value, o) ==
    (IF QueueStops(value) THEN StopTrace(o) ELSE <<>>) \o
    (IF QueueRaised(value, o) = NoError THEN <<"set_queue">> ELSE <<>>)

set_queue(value, o) ==
    /\ inst = "ok"
    /\ nops < MaxOps
    /\ IF QueueStops(value) THEN StopPossible(o) ELSE o = NoStop
    /\ nops' = nops + 1
    /\ _queue' = IF QueueRaised(value, o) = NoError THEN value ELSE _queue
    /\ consumers' = IF QueueStops(value) THEN StopConsumers(o) ELSE consumers
    /\ _consumer_tag' = IF QueueStops(value) THEN StopTag ELSE _consumer_tag
    /\ _consuming' = IF QueueStops(value) THEN StopFlag ELSE _consuming
    /\ last' = [Obs("set_queue") EXCEPT
                   !.call = <<value>>,
                   !.trace = QueueTrace(value, o),
                   !.cancelled = IF QueueStops(value) THEN StopCancelled
                                 ELSE <<>>,
                   !.returned = IF QueueStops(value) THEN StopReturns(o)
                                ELSE <<>>,
                   !.handled = IF QueueStops(value) THEN StopHandled(o)
                               ELSE <<>>,
                   !.exc = QueueRaised(value, o),
                   !.log = (IF QueueStops(value) THEN StopLog(o) ELSE <<>>) \o
                           (IF QueueRaised(value, o) = NoError
                            THEN <<"Queue name set to">> ELSE <<>>)]
    /\ UNCHANGED <<inst, logger, params, _connection, _channel, conns, nconns,
                   ntags, loops>>

SetQueue == \E value \in QueueNames, o \in StopOutcomes : set_queue(value, o)

----------------------------------------------------------------------------
(* RabbitMQConsumer.__enter__ and __exit__ *)

__enter__ ==
    /\ inst = "ok"
    /\ nops < MaxOps
    /\ nops' = nops + 1
    /\ last' = [Obs("__enter__") EXCEPT !.ret = "self"]
    /\ UNCHANGED <<inst, logger, params, _connection, _channel, conns, nconns,
                   _queue, _consuming, _consumer_tag, consumers, ntags, loops>>

\* stop_consuming(), then disconnect(): an error of the first ends the call
ExitTrace(o) ==
    StopTrace(o) \o
    (IF StopRaised(o) = NoError THEN <<"disconnect">> \o DisconnectTrace
     ELSE <<>>)

ExitConns(o) == IF StopRaised(o) = NoError THEN DisconnectConns ELSE conns

\* with_error: the block was left by an exception (exc_type is not None)
__exit__(with_error, o) ==
    /\ inst = "ok"
    /\ nops < MaxOps
    /\ StopPossible(o)
    /\ nops' = nops + 1
    /\ consumers' = StopConsumers(o)
    /\ _consumer_tag' = StopTag
    /\ _consuming' = StopFlag
    /\ conns' = ExitConns(o)
    /\ last' = [Obs("__exit__") EXCEPT
                   !.call = <<with_error>>,
                   !.trace = ExitTrace(o),
                   !.cancelled = StopCancelled,
                   !.returned = StopReturns(o),
                   !.handled = StopHandled(o),
                   !.exc = StopRaised(o),
                   !.log = StopLog(o) \o
                           (IF StopRaised(o) = NoError THEN DisconnectLog
                            ELSE <<>>)]
    /\ UNCHANGED <<inst, logger, params, _connection, _channel, nconns,
                   _queue, ntags, loops>>

Exit == \E with_error \in BOOLEAN, o \in StopOutcomes : __exit__(with_error, o)

----------------------------------------------------------------------------
(* The subscriber: its own operations, those it inherits, and the broker *)

NextC ==
    \/ Connect /\ UNCHANGED <<cvars, hvars, svars>>
    \/ disconnect /\ UNCHANGED <<cvars, hvars, svars>>
    \/ ConnectionLost /\ UNCHANGED <<cvars, hvars, svars>>
    \/ ChannelClosed /\ UNCHANGED <<cvars, hvars, svars>>
    \/ Consume /\ UNCHANGED <<hvars, svars>>
    \/ Stop /\ UNCHANGED <<hvars, svars>>
    \/ SetQueue /\ UNCHANGED <<hvars, svars>>
    \/ __enter__ /\ UNCHANGED <<hvars, svars>>
    \/ Exit /\ UNCHANGED <<hvars, svars>>
    \/ LoopReturns /\ UNCHANGED <<hvars, svars>>
    \/ LoopRaises /\ UNCHANGED <<hvars, svars>>

SpecC == InitC /\ [][NextC]_vars

----------------------------------------------------------------------------
(* Python's int() and str() *)

Digits == <<"0", "1", "2", "3", "4", "5", "6", "7", "8", "9">>
IsDigit(c) == \E d \in 1..10 : Digits[d] = c
DigitValue(c) == (CHOOSE d \in 1..10 : Digits[d] = c) - 1

\* the number a sequence of digits denotes
RECURSIVE Number(_)
Number(s) ==
    IF s = <<>> THEN 0
    ELSE 10 * Number(SubSeq(s, 1, Len(s) - 1)) + DigitValue(s[Len(s)])

\* the digits of a natural number
RECURSIVE Numeral(_)
Numeral(n) ==
    IF n < 10 THEN <<Digits[n + 1]>>
    ELSE Numeral(n \div 10) \o <<Digits[(n % 10) + 1]>>

\* int(v): a bool or int is its number, a float is cut towards zero, a str
\* must be digits after an optional sign, anything else is a TypeError
int(v) ==
    CASE v.t \in {"int", "bool"} -> [exc |-> NoError, n |-> v.n]
      [] v.t = "float" ->
            [exc |-> NoError,
             n |-> IF v.n >= 0 THEN v.n \div 10 ELSE -((-v.n) \div 10)]
      [] v.t = "str" ->
            LET signed == Len(v.s) > 0 /\ v.s[1] \in {"-", "+"}
                digits == IF signed THEN Tail(v.s) ELSE v.s
            IN  IF Len(digits) > 0 /\ \A i \in 1..Len(digits) : IsDigit(digits[i])
                THEN [exc |-> NoError,
                      n |-> IF signed /\ v.s[1] = "-" THEN -Number(digits)
                            ELSE Number(digits)]
                ELSE [exc |-> Error("ValueError",
                                    "invalid literal for int() with base 10"),
                      n |-> 0]
      [] OTHER ->
            [exc |-> Error("TypeError",
                       "int() argument must be a string, a bytes-like object or a real number"),
             n |-> 0]

\* str(v) as a sequence of characters
str(v) ==
    CASE v.t = "str" -> v.s
      [] v.t = "int" ->
            IF v.n < 0 THEN <<"-">> \o Numeral(-v.n) ELSE Numeral(v.n)
      [] v.t = "bool" -> IF v.n = 1 THEN <<"T", "r", "u", "e">>
                         ELSE <<"F", "a", "l", "s", "e">>
      [] v.t = "float" ->
            (IF v.n < 0 THEN <<"-">> ELSE <<>>) \o
            Numeral((IF v.n < 0 THEN -v.n ELSE v.n) \div 10) \o <<".">> \o
            Numeral((IF v.n < 0 THEN -v.n ELSE v.n) % 10)
      [] v.t = "NoneType" -> <<"N", "o", "n", "e">>
      [] OTHER -> <<"[", "]">>

\* the truth value of v: None, 0, False, 0.0, '' and [] are falsy
Truthy(v) ==
    CASE v.t = "str" -> Len(v.s) > 0
      [] v.t \in {"int", "bool", "float"} -> v.n # 0
      [] OTHER -> FALSE

----------------------------------------------------------------------------
(* HealthCheckMixin.__init__ *)

HealthPorts == {IntV(5000), FloatV(80000), FloatV(50005), FloatV(5), IntV(0),
                IntV(-1), Str(<<"i", "n", "v">>), Str(<<"8", "0">>),
                BoolV(TRUE), NoneV}

PortError == Error("ValueError", "health_check_port must be a valid port number.")

\* what __init__ raises: the ValueError of int() is replaced, any other
\* error of int() leaves __init__ as it is; then the test of the sign
HealthRejected(health_check_port) ==
    LET converted == int(health_check_port)
    IN  IF converted.exc.kind = "ValueError" THEN PortError
        ELSE IF converted.exc # NoError THEN converted.exc
        ELSE IF converted.n <= 0 THEN PortError
        ELSE NoError

HealthNew(health_check_port) ==
    LET e == HealthRejected(health_check_port)
    IN  /\ hinst = "none"
        /\ hlast' = [NoResponse EXCEPT !.op = "__init__",
                                       !.arg = health_check_port, !.exc = e]
        /\ IF e = NoError
           THEN /\ hinst' = "ok"
                /\ ready' = FALSE
                /\ _status' = NoneV
                /\ _status_code' = IntV(503)
                /\ _health_port' = int(health_check_port).n
                /\ listening' = TRUE
                /\ _start_time' = "set"
           ELSE /\ hinst' = "rejected"
                /\ UNCHANGED <<ready, _status, _status_code, _health_port,
                               listening, _start_time>>
        /\ UNCHANGED <<request, held, hops>>

HealthConstruct == \E health_check_port \in HealthPorts : HealthNew(health_check_port)

\* __init__ up to the start of the server thread (line 54): the fields of
\* lines 42-48 are assigned and the listener runs; _start_time is not
\* assigned yet
HealthStart(health_check_port) ==
    LET e == HealthRejected(health_check_port)
    IN  /\ hinst = "none"
        /\ IF e = NoError
           THEN /\ hinst' = "starting"
                /\ ready' = FALSE
                /\ _status' = NoneV
                /\ _status_code' = IntV(503)
                /\ _health_port' = int(health_check_port).n
                /\ listening' = TRUE
                /\ UNCHANGED hlast
           ELSE /\ hinst' = "rejected"
                /\ hlast' = [NoResponse EXCEPT !.op = "__init__",
                                               !.arg = health_check_port,
                                               !.exc = e]
                /\ UNCHANGED <<ready, _status, _status_code, _health_port,
                               listening>>
        /\ UNCHANGED <<_start_time, request, held, hops>>

HealthStarts == \E health_check_port \in HealthPorts : HealthStart(health_check_port)

\* the rest of __init__: self._start_time = time.time() (line 56), return
HealthFinish ==
    /\ hinst = "starting"
    /\ hinst' = "ok"
    /\ _start_time' = "set"
    /\ hlast' = [NoResponse EXCEPT !.op = "__init__",
                                   !.arg = IntV(_health_port)]
    /\ UNCHANGED <<ready, _status, _status_code, _health_port, listening,
                   request, held, hops>>

----------------------------------------------------------------------------
(* HealthCheckMixin: the properties the owner assigns and reads *)

ReadyValues == {BoolV(TRUE), BoolV(FALSE), IntV(1), NoneV, Str(<<"y">>)}
StatusValues == {Str(<<"u", "p">>), NoneV, IntV(200)}
CodeValues == {IntV(200), IntV(0), IntV(599), IntV(600), IntV(-200),
               BoolV(TRUE), FloatV(2000), Str(<<"u", "p">>), NoneV}

\* the response code GET /status gives for these fields
ResponseCode(rd, sc) == IF rd THEN sc.n ELSE 503

\* the (status message, response code) pair the fields st, rd, sc stand for
Pair(st, rd, sc) == <<st, ResponseCode(rd, sc)>>

\* the pairs held during the request at hand, after an assignment
Held(st, rd, sc) ==
    IF request.pc = "idle" THEN held ELSE held \cup {Pair(st, rd, sc)}

\* the property status_code: self._status_code or 500
status_code == IF Truthy(_status_code) THEN _status_code ELSE IntV(500)

ReadyRejected(value) ==
    IF value.t # "bool" THEN Error("ValueError", "ready must be a boolean.")
    ELSE NoError

set_ready(value) ==
    /\ hinst = "ok"
    /\ hops < MaxOps
    /\ hops' = hops + 1
    /\ ready' = IF ReadyRejected(value) = NoError THEN value.n = 1 ELSE ready
    /\ held' = Held(_status, ready', _status_code)
    /\ hlast' = [NoResponse EXCEPT !.op = "ready", !.arg = value,
                                   !.exc = ReadyRejected(value)]
    /\ UNCHANGED <<hinst, _status, _status_code, _health_port, _start_time,
                   listening, request>>

SetReady == \E value \in ReadyValues : set_ready(value)

\* the value the setter of status stores
StatusStored(value) ==
    IF ~IsStr(value) /\ value # NoneV THEN Str(str(value)) ELSE value

set_status(value) ==
    /\ hinst = "ok"
    /\ hops < MaxOps
    /\ hops' = hops + 1
    /\ _status' = StatusStored(value)
    /\ held' = Held(_status', ready, _status_code)
    /\ hlast' = [NoResponse EXCEPT !.op = "status", !.arg = value]
    /\ UNCHANGED <<hinst, ready, _status_code, _health_port, _start_time,
                   listening, request>>

SetStatus == \E value \in StatusValues : set_status(value)

CodeRejectedAbove600(value) ==
    IF ~IsInt(value) \/ 0 > value.n \/ value.n > 600
    THEN Error("ValueError", "status_code should be valid HTTP status code.")
    ELSE NoError

CodeRejected(value) ==
    IF ~IsInt(value) \/ 0 > value.n \/ value.n > 599
    THEN Error("ValueError", "status_code should be valid HTTP status code.")
    ELSE NoError

set_status_code(value) ==
    /\ hinst = "ok"
    /\ hops < MaxOps
    /\ hops' = hops + 1
    /\ _status_code' = IF CodeRejected(value) = NoError THEN value
                       ELSE _status_code
    /\ held' = Held(_status, ready, _status_code')
    /\ hlast' = [NoResponse EXCEPT !.op = "status_code", !.arg = value,
                                   !.exc = CodeRejected(value)]
    /\ UNCHANGED <<hinst, ready, _status, _health_port, _start_time,
                   listening, request>>

SetStatusCode == \E value \in CodeValues : set_status_code(value)

----------------------------------------------------------------------------
(* HealthCheckMixin._setup_health_routines: the request handlers, which run *)
(* in threads of the Flask application while the owner goes on             *)

HealthResponseInverted ==
    IF ~ready THEN [code |-> 200, body |-> "OK"]
    ELSE [code |-> 503, body |-> "Starting..."]

HealthResponse ==
    IF ready THEN [code |-> 200, body |-> "OK"]
    ELSE [code |-> 503, body |-> "Starting..."]

\* GET /health: one read of self._ready
healthSetsReady ==
    /\ listening
    /\ hops < MaxOps
    /\ hops' = hops + 1
    /\ ready' = TRUE
    /\ hlast' = [NoResponse EXCEPT !.op = "GET /health",
                                   !.code = HealthResponse.code,
                                   !.body = HealthResponse.body]
    /\ UNCHANGED <<hinst, _status, _status_code, _health_port,
                   _start_time, listening, request, held>>

health ==
    /\ listening
    /\ hops < MaxOps
    /\ hops' = hops + 1
    /\ hlast' = [NoResponse EXCEPT !.op = "GET /health",
                                   !.code = HealthResponse.code,
                                   !.body = HealthResponse.body]
    /\ UNCHANGED <<hinst, ready, _status, _status_code, _health_port,
                   _start_time, listening, request, held>>

\* GET /status arrives
StatusBegin ==
    /\ listening
    /\ hops < MaxOps
    /\ request.pc = "idle"
    /\ hops' = hops + 1
    /\ request' = [pc |-> "status", status |-> NoneV]
    /\ held' = {Pair(_status, ready, _status_code)}
    /\ hlast' = [NoResponse EXCEPT !.op = "GET /status begins"]
    /\ UNCHANGED <<hinst, ready, _status, _status_code, _health_port,
                   _start_time, listening>>

\* the property uptime: `if self._start_time is None` reads a field that
\* does not exist before __init__ has assigned it
UptimeRaised ==
    IF _start_time = "unset"
    THEN Error("AttributeError", "object has no attribute '_start_time'")
    ELSE NoError

\* the body is built first: self._status is read, then self.uptime; an
\* error of the handler is answered by the application with a 500
StatusReadsStatus ==
    /\ request.pc = "status"
    /\ IF UptimeRaised = NoError
       THEN /\ request' = [pc |-> "ready", status |-> _status]
            /\ UNCHANGED <<held, hlast>>
       ELSE /\ request' = NoRequest
            /\ hlast' = [NoResponse EXCEPT !.op = "GET /status",
                                           !.exc = UptimeRaised,
                                           !.code = 500,
                                           !.body = "Internal Server Error"]
            /\ held' = {}
    /\ UNCHANGED <<hinst, ready, _status, _status_code, _health_port,
                   _start_time, listening, hops>>

\* the response of the request at hand with response code c
StatusResponseAlways503(c) ==
    [NoResponse EXCEPT !.op = "GET /status", !.code = 503,
                       !.body = "json", !.status = request.status]

StatusResponse(c) ==
    [NoResponse EXCEPT !.op = "GET /status", !.code = c,
                       !.body = "json", !.status = request.status]

\* then self._ready is read: when it is false the response code is 503
StatusReadsReady ==
    /\ request.pc = "ready"
    /\ IF ready
       THEN /\ request' = [request EXCEPT !.pc = "code"]
            /\ UNCHANGED <<hlast, held>>
       ELSE /\ request' = NoRequest
            /\ hlast' = StatusResponse(503)
            /\ held' = {}
    /\ UNCHANGED <<hinst, ready, _status, _status_code, _health_port,
                   _start_time, listening, hops>>

\* when it was true self._status_code is read and is the response code
StatusReadsCode ==
    /\ request.pc = "code"
    /\ request' = NoRequest
    /\ hlast' = StatusResponse(_status_code.n)
    /\ held' = {}
    /\ UNCHANGED <<hinst, ready, _status, _status_code, _health_port,
                   _start_time, listening, hops>>

----------------------------------------------------------------------------
(* The health server of a service: its owner and its request handlers *)

NextH ==
    \/ HealthConstruct /\ UNCHANGED <<bvars, cvars, svars>>
    \/ SetReady /\ UNCHANGED <<bvars, cvars, svars>>
    \/ SetStatus /\ UNCHANGED <<bvars, cvars, svars>>
    \/ SetStatusCode /\ UNCHANGED <<bvars, cvars, svars>>
    \/ health /\ UNCHANGED <<bvars, cvars, svars>>
    \/ StatusBegin /\ UNCHANGED <<bvars, cvars, svars>>
    \/ StatusReadsStatus /\ UNCHANGED <<bvars, cvars, svars>>
    \/ StatusReadsReady /\ UNCHANGED <<bvars, cvars, svars>>
    \/ StatusReadsCode /\ UNCHANGED <<bvars, cvars, svars>>

SpecH == Init /\ [][NextH]_vars

\* The same server with its construction in two steps: the listener thread
\* answers requests from the moment it is started, while __init__ goes on.
NextU ==
    \/ HealthStarts /\ UNCHANGED <<bvars, cvars, svars>>
    \/ HealthFinish /\ UNCHANGED <<bvars, cvars, svars>>
    \/ SetReady /\ UNCHANGED <<bvars, cvars, svars>>
    \/ SetStatus /\ UNCHANGED <<bvars, cvars, svars>>
    \/ SetStatusCode /\ UNCHANGED <<bvars, cvars, svars>>
    \/ health /\ UNCHANGED <<bvars, cvars, svars>>
    \/ StatusBegin /\ UNCHANGED <<bvars, cvars, svars>>
    \/ StatusReadsStatus /\ UNCHANGED <<bvars, cvars, svars>>
    \/ StatusReadsReady /\ UNCHANGED <<bvars, cvars, svars>>
    \/ StatusReadsCode /\ UNCHANGED <<bvars, cvars, svars>>

SpecU == Init /\ [][NextU]_vars

----------------------------------------------------------------------------
(* RabbitMQStatefulMixin._get_session_id_from_properties *)

SessionValues == {Str(<<"a", "b", "c">>), IntV(1234), IntV(-7), FloatV(15),
                  BoolV(TRUE), Str(<<>>), NoneV, IntV(0), BoolV(FALSE), ListV}

HeaderValues ==
    {NoHeaders} \cup
    [given : {TRUE}, session_id : SessionValues \cup {Absent}, other : BOOLEAN]

\* pika.BasicProperties(headers=...), a bare mapping, and None
PropertyValues ==
    [type : {"BasicProperties", "dict"}, headers : HeaderValues]
    \cup {NoProperties}

\* `not properties.headers`: headers is None or has no key
HeadersFalsy(h) == ~h.given \/ (h.session_id = Absent /\ ~h.other)

\* what the call returns, raises and logs for properties p
SessionIdKeepsFalsy(p) ==
    IF p.type # "BasicProperties"
    THEN [ret |-> NoneV,
          exc |-> Error("TypeError", "Expected Pika BasicProperties object."),
          log |-> <<"Expected Pika BasicProperties object.">>]
    ELSE IF HeadersFalsy(p.headers)
    THEN [ret |-> NoneV, exc |-> NoError,
          log |-> <<"Message properties missing headers for stateful processing.">>]
    ELSE IF p.headers.session_id = Absent
    THEN [ret |-> NoneV, exc |-> NoError,
          log |-> <<"Message properties missing 'session_id' header for stateful processing.">>]
    ELSE [ret |-> Str(str(p.headers.session_id)), exc |-> NoError, log |-> <<>>]

SessionId(p) ==
    IF p.type # "BasicProperties"
    THEN [ret |-> NoneV,
          exc |-> Error("TypeError", "Expected Pika BasicProperties object."),
          log |-> <<"Expected Pika BasicProperties object.">>]
    ELSE IF HeadersFalsy(p.headers)
    THEN [ret |-> NoneV, exc |-> NoError,
          log |-> <<"Message properties missing headers for stateful processing.">>]
    ELSE IF p.headers.session_id = Absent
    THEN [ret |-> NoneV, exc |-> NoError,
          log |-> <<"Message properties missing 'session_id' header for stateful processing.">>]
    ELSE IF ~Truthy(p.headers.session_id)
    THEN [ret |-> NoneV, exc |-> NoError,
          log |-> <<"Message properties 'session_id' header is empty.">>]
    ELSE [ret |-> Str(str(p.headers.session_id)), exc |-> NoError, log |-> <<>>]

\* a message with properties p is at hand
Deliver ==
    \E p \in PropertyValues :
        /\ ncalls < MaxCalls
        /\ properties' = p
        /\ UNCHANGED <<ncalls, slast>>

_get_session_id_from_properties ==
    /\ ncalls < MaxCalls
    /\ ncalls' = ncalls + 1
    /\ slast' = [properties |-> properties,
                 ret |-> SessionId(properties).ret,
                 exc |-> SessionId(properties).exc,
                 log |-> SessionId(properties).log]
    /\ UNCHANGED properties

NextS ==
    \/ Deliver /\ UNCHANGED <<bvars, cvars, hvars>>
    \/ _get_session_id_from_properties /\ UNCHANGED <<bvars, cvars, hvars>>

SpecS == Init /\ [][NextS]_vars

----------------------------------------------------------------------------
(* AbstractEar: RabbitMQProducer composed with HealthCheckMixin *)

\* health ports an ear is constructed with (8000 is the default)
EarPorts == {IntV(8000), IntV(0)}

\* AbstractEar.__init__: HealthCheckMixin.__init__(self, health_port), then
\* RabbitMQProducer.__init__(self, host, port, max_attempts,
\* attempt_interval); an error of the first ends the call.
EarNew(host, port, max_attempts, attempt_interval, health_port) ==
    /\ HealthNew(health_port)
    /\ IF HealthRejected(health_port) = NoError
       THEN New(host, port, max_attempts, attempt_interval)
       ELSE /\ inst = "none"
            /\ inst' = "rejected"
            /\ nops' = nops + 1
            /\ last' = [Obs("__init__") EXCEPT !.exc = HealthRejected(health_port)]
            /\ UNCHANGED <<logger, params, _connection, _channel, conns,
                           nconns>>

\* ears are constructed with a valid broker configuration
EarConstruct ==
    \E health_port \in EarPorts :
        EarNew(ConsumerParams.host, ConsumerParams.port,
               ConsumerParams.connection_attempts, ConsumerParams.retry_delay,
               health_port)

\* What `self._ready` is on the instance. HealthCheckMixin.__init__ stores a
\* bool in the instance under the name of the method AbstractRabbitMQ._ready,
\* and Python finds an instance attribute before a method of the class.
ReadyAttribute == IF hinst = "ok" THEN "bool" ELSE "method"

\* `self._ready()`: calling a bool raises TypeError
ReadyCall ==
    IF ReadyAttribute = "bool"
    THEN [exc |-> Error("TypeError", "'bool' object is not callable"),
          value |-> FALSE]
    ELSE [exc |-> NoError, value |-> _ready]

\* publish() of an ear: _basic_publish starts with `if not self._ready():`,
\* and the error of that call is caught nowhere
ear_publish(a, o) ==
    IF ReadyCall.exc # NoError
    THEN /\ inst = "ok"
         /\ nops < MaxOps
         /\ o = "ok"
         /\ nops' = nops + 1
         /\ last' = [Obs("publish") EXCEPT !.pub = a, !.ret = "raised",
                                           !.exc = ReadyCall.exc]
         /\ UNCHANGED <<inst, logger, params, _connection, _channel, conns,
                        nconns>>
    ELSE publish(a, o)

EarPublish == \E a \in PublishCalls, o \in PublishOutcomes : ear_publish(a, o)

\* The ear: its owner connects, publishes and sets the health flag; the
\* health server answers; the broker may drop the connection.
NextE ==
    \/ EarConstruct /\ UNCHANGED <<cvars, svars>>
    \/ Connect /\ UNCHANGED <<cvars, hvars, svars>>
    \/ disconnect /\ UNCHANGED <<cvars, hvars, svars>>
    \/ EarPublish /\ UNCHANGED <<cvars, hvars, svars>>
    \/ ConnectionLost /\ UNCHANGED <<cvars, hvars, svars>>
    \/ SetReady /\ UNCHANGED <<bvars, cvars, svars>>
    \/ health /\ UNCHANGED <<bvars, cvars, svars>>

SpecE == Init /\ [][NextE]_vars

----------------------------------------------------------------------------
(* Helpers of the properties *)

\* how often call x occurs in a sequence of calls
Count(seq, x) == Cardinality({i \in 1..Len(seq) : seq[i] = x})

\* the step just taken was operation op of the manager
Did(op) == last'.op = op /\ nops' = nops + 1

\* connectionAttempts of the configuration connect() ran with
N == last.args.connection_attempts.n

\* every attempt of the connect() just made failed with a connection error
AllAttemptsFailed ==
    /\ last.op = "connect"
    /\ last.caught = "AMQPConnectionError"
    /\ last.trace[Len(last.trace)] = "BlockingConnection"

----------------------------------------------------------------------------
(* C1 *)

----------------------------------------------------------------------------
(* C2 *)

----------------------------------------------------------------------------
(* C3 *)

\* C3: _ready() is true exactly when the manager holds an open connection and
\* an open channel; it is true right after a connect() that returned true and
\* false before any connection was made, after disconnect(), after the
\* channel reference is lost and after the channel or connection is closed.
C3_ReadyIffOpen ==
    /\ _ready <=> /\ _connection # 0
                  /\ conns[_connection].is_open
                  /\ _channel # 0
                  /\ conns[_channel].chan_open
    /\ (last.op = "connect" /\ last.ret = "True") => _ready
    /\ nconns = 0 => ~_ready
    /\ last.op \in {"disconnect", "channel_dropped", "channel_closed",
                    "connection_lost"} => ~_ready

\* disconnect() has just closed the connection of a connected manager
C3_Witness ==
    /\ last.op = "disconnect"
    /\ last.trace = <<"close">>
    /\ _channel # 0
    /\ ~_ready

----------------------------------------------------------------------------
(* C4 *)

\* C4 as stated: a connect() that returns true has invoked the setup hook
\* exactly once, after the channel was opened and before returning;
\* construction and connect() calls that return false invoke it zero times.
C4_SetupOnceOnSuccessOnly ==
    /\ (last.op = "connect" /\ last.ret = "True") =>
          last.trace = <<"BlockingConnection", "channel", "_setup">>
    /\ last.op = "__init__" => Count(last.trace, "_setup") = 0
    /\ (last.op = "connect" /\ last.ret = "False") =>
          Count(last.trace, "_setup") = 0

\* C4 amended: a connect() that returns true has invoked the setup hook
\* exactly once, after the channel was opened and before returning;
\* construction invokes it zero times; a connect() that returns false has
\* invoked it zero times when the connection or the channel could not be
\* opened, and once when the hook itself failed with a connection error.
C4_SetupOnce ==
    /\ (last.op = "connect" /\ last.ret = "True") =>
          last.trace = <<"BlockingConnection", "channel", "_setup">>
    /\ last.op = "__init__" => Count(last.trace, "_setup") = 0
    /\ (last.op = "connect" /\ last.ret = "False") =>
          \/ /\ Count(last.trace, "_setup") = 0
             /\ last.trace[Len(last.trace)] \in {"BlockingConnection", "channel"}
          \/ /\ Count(last.trace, "_setup") = 1
             /\ last.trace[Len(last.trace)] = "_setup"
             /\ last.caught = "AMQPConnectionError"

\* connect() returned true after running the hook
C4_Witness ==
    /\ last.op = "connect"
    /\ last.ret = "True"
    /\ Count(last.trace, "_setup") = 1

----------------------------------------------------------------------------
(* C5 *)

\* C5: disconnect() is idempotent: no connection object is ever closed by the
\* manager more than once; a disconnect() that finds the connection open
\* closes it once and logs "Connection closed.", one that finds no open
\* connection calls nothing, changes nothing and logs "Connection already
\* closed.".
C5_DisconnectIdempotent ==
    [][Did("disconnect") =>
        /\ \A c \in ConnIds : conns'[c].close_calls <= 1
        /\ (_connection # 0 /\ conns[_connection].is_open) =>
              /\ last'.trace = <<"close">>
              /\ last'.log[2] = "Connection closed."
              /\ conns'[_connection].close_calls =
                    conns[_connection].close_calls + 1
              /\ ~conns'[_connection].is_open
        /\ ~(_connection # 0 /\ conns[_connection].is_open) =>
              /\ last'.trace = <<>>
              /\ last'.log[2] = "Connection already closed."
              /\ conns' = conns
        /\ nconns = 0 => \A c \in ConnIds : conns'[c].close_calls = 0]_vars

\* a second disconnect() after the first one closed the connection
C5_Witness ==
    /\ last.op = "disconnect"
    /\ last.log[2] = "Connection already closed."
    /\ _connection # 0
    /\ conns[_connection].close_calls = 1

----------------------------------------------------------------------------
(* C6 *)

\* C6: teardown (__del__) leaves no connection open and never raises,
\* whatever state the instance is torn down in, also after its construction
\* was rejected by validation.
C6_TeardownNeverRaises ==
    last.op = "__del__" =>
        /\ last.exc = NoError
        /\ \A c \in ConnIds : ~conns[c].is_open

----------------------------------------------------------------------------
(* C7 *)

ParamNames == {"host", "port", "connection_attempts", "retry_delay"}

\* a value of the wrong type for parameter p
WrongType(p, v) ==
    IF p = "host" THEN v.t # "str"
    ELSE IF p = "retry_delay" THEN v.t \notin {"int", "bool", "float"}
    ELSE v.t \notin {"int", "bool"}

\* a value of the right type outside the range of parameter p
OutOfRange(p, v) ==
    /\ ~WrongType(p, v)
    /\ IF p = "host"
       THEN v.s = <<>> \/ \A i \in 1..Len(v.s) : v.s[i] \in {" ", "\n", "\t"}
       ELSE v.n <= 0

\* the parameter an error message is about (connection_attempts is reported
\* under its label "max_retries")
Names(msg, p) ==
    \/ p = "host" /\ msg \in {"host must be a string.", "host must not be empty."}
    \/ p = "port" /\ msg = "port must be a positive integer."
    \/ p = "connection_attempts" /\ msg = "max_retries must be a positive integer."
    \/ p = "retry_delay" /\ msg = "retry_delay must be a positive float."

----------------------------------------------------------------------------
(* C8 *)

\* C8: publish() while _ready() is false raises the "not connected"
\* RuntimeError before any broker call: no basic_publish, no connection
\* attempt, connection state unchanged.
C8_PublishNotReady ==
    [][(Did("publish") /\ ~_ready) =>
        /\ last'.exc = Error("RuntimeError",
              "RabbitMQProducer is not connected. Call connect() first.")
        /\ last'.trace = <<>>
        /\ last'.sent = <<>>
        /\ UNCHANGED <<_connection, _channel, conns, nconns, params>>]_vars

\* publish() was refused on a manager whose connection had been closed
C8_Witness ==
    /\ last.op = "publish"
    /\ last.exc.kind = "RuntimeError"
    /\ _connection # 0
    /\ ~_ready

----------------------------------------------------------------------------
(* C9 *)

\* C9: a publish() on a ready manager issues a broker publish whose delivery
\* mode is persistent when durable is true (the default) and transient when
\* durable is false, with body, routing key and exchange (default: empty
\* string) passed through unchanged.
C9_DurabilityMapping ==
    [][(Did("publish") /\ _ready) =>
        LET a == last'.pub IN
        /\ last'.sent # <<>>
        /\ \A i \in 1..Len(last'.sent) :
              /\ last'.sent[i].delivery_mode =
                    IF ~a.durable_given \/ a.durable
                    THEN "Persistent" ELSE "Transient"
              /\ last'.sent[i].body = a.message
              /\ last'.sent[i].routing_key = a.routing_key
              /\ last'.sent[i].exchange =
                    IF a.exchange_given THEN a.exchange ELSE ""]_vars

\* a transient publish to a named exchange has been issued
C9_Witness ==
    /\ last.op = "publish"
    /\ Len(last.sent) = 1
    /\ last.pub.durable_given /\ ~last.pub.durable
    /\ last.sent[1].delivery_mode = "Transient"
    /\ last.sent[1].exchange = "ex"

----------------------------------------------------------------------------
(* C10 *)

\* C10: a publish() on a ready manager issues exactly one broker publish
\* attempt; a channel-level or connection-level failure of that attempt is
\* logged with its own cause and raised to the caller as the same kind of
\* error, never swallowed and never retried.
C10_PublishFailurePropagates ==
    [][(Did("publish") /\ _ready) =>
        /\ Len(last'.sent) = 1
        /\ Count(last'.trace, "basic_publish") = 1
        /\ last'.caught = "AMQPChannelError" =>
              /\ last'.exc.kind = "AMQPChannelError"
              /\ last'.log = <<"AMQP Channel Error during publish">>
        /\ last'.caught = "AMQPConnectionError" =>
              /\ last'.exc.kind = "AMQPConnectionError"
              /\ last'.log = <<"AMQP Connection Error during publish">>
        /\ last'.caught # "none" => last'.ret = "raised"]_vars

\* a publish failed with a channel-level error
C10_Witness ==
    /\ last.op = "publish"
    /\ last.caught = "AMQPChannelError"
    /\ last.exc.kind = "AMQPChannelError"

----------------------------------------------------------------------------
(* C11 *)

\* the subscription state of the subscriber
subscription == <<_queue, _consumer_tag, _consuming>>

\* C11: consume() called while _ready() is false raises the 'not connected'
\* RuntimeError before any broker call: it issues no basic_consume, no
\* basic_cancel and no start_consuming, the broker's consumers are as they
\* were, and queue, consumer tag and consuming flag are unchanged.
C11_ConsumeNotReady ==
    [][Did("consume") /\ ~_ready =>
          /\ last'.exc = Error("RuntimeError",
                 "RabbitMQProducer is not connected. Call connect() first.")
          /\ last'.trace = <<>>
          /\ last'.registered = <<>> /\ last'.cancelled = <<>>
          /\ UNCHANGED <<subscription, consumers, ntags, loops>>]_vars

\* consume() has raised the error on a subscriber that still holds a tag
C11_Witness ==
    /\ last.op = "consume"
    /\ last.exc.kind = "RuntimeError"
    /\ ~_ready
    /\ _consumer_tag # 0 /\ _consuming

----------------------------------------------------------------------------
(* C12 *)

\* C12: in every reachable state at most one consumer registered by the
\* subscriber is active at the broker.
C12_AtMostOneActive == Cardinality(ActiveConsumers) <= 1

----------------------------------------------------------------------------
(* C13 *)

\* the arguments of the consume() call just made
ConsumeArgs == last'.call[1]

\* C13: consume() called with restart_if_running = false while the
\* subscriber is consuming issues no stop_consuming, no basic_cancel, no
\* basic_consume and no start_consuming, and leaves the consumer tag, the
\* consuming flag, the queue and the broker's consumers unchanged; on a
\* ready manager it returns without an error.
C13_NoRestartIsNoOp ==
    [][Did("consume") /\ _consuming /\ ~ConsumeArgs.restart_if_running =>
          /\ last'.trace = <<>>
          /\ last'.registered = <<>> /\ last'.cancelled = <<>>
          /\ UNCHANGED <<subscription, consumers, ntags, loops>>
          /\ _ready => last'.exc = NoError /\ last'.ret = "None"]_vars

\* consume(restart_if_running = false) has returned on a ready, consuming
\* subscriber
C13_Witness ==
    /\ last.op = "consume"
    /\ ~last.call[1].restart_if_running
    /\ last.exc = NoError /\ last.ret = "None"
    /\ _ready /\ _consuming /\ _consumer_tag # 0
    /\ Active(_consumer_tag)

----------------------------------------------------------------------------
(* C14 *)

\* position of the first call x in a sequence of calls (0 when absent)
Pos(seq, x) ==
    IF \E i \in 1..Len(seq) : seq[i] = x
    THEN CHOOSE i \in 1..Len(seq) : seq[i] = x /\ \A j \in 1..(i-1) : seq[j] # x
    ELSE 0

\* consume() restarted a consuming subscriber and no call of it raised
RestartedCleanly ==
    /\ Did("consume")
    /\ _ready /\ _consuming /\ ConsumeArgs.restart_if_running
    /\ last'.exc = NoError

\* consume() made one stop_consuming with one basic_cancel of the old tag,
\* then one basic_consume, and stores the tag of the new consumer
RestartCalls ==
    /\ Count(last'.trace, "stop_consuming") = 1
    /\ Count(last'.trace, "basic_cancel") = 1
    /\ Len(last'.cancelled) = 1 /\ last'.cancelled[1].tag = _consumer_tag
    /\ Count(last'.trace, "basic_consume") = 1
    /\ Pos(last'.trace, "basic_cancel") < Pos(last'.trace, "basic_consume")
    /\ _consumer_tag' # 0 /\ _consumer_tag' # _consumer_tag
    /\ consumers[_consumer_tag'].state = "none"
    /\ consumers'[_consumer_tag'].state = "registered"

\* C14: consume() called with restart_if_running = true while a subscription
\* is active cancels the existing consumer (one stop_consuming with one
\* basic_cancel of the old tag) before registering exactly one new consumer,
\* the stored tag afterwards is the new consumer's, and the old consumer is
\* not left registered.
C14_RestartReplaces ==
    [][RestartedCleanly =>
          /\ RestartCalls
          /\ consumers'[_consumer_tag].state # "registered"]_vars

----------------------------------------------------------------------------
(* C15 *)

\* C15: on a ready manager, a consume() that registers its handler has
\* declared the queue (queue_declare, durable) and set the prefetch count
\* (basic_qos) before its basic_consume.
C15_DeclaresBeforeConsume ==
    [][Did("consume") /\ _ready /\ Pos(last'.trace, "basic_consume") > 0 =>
          /\ Pos(last'.trace, "queue_declare") > 0
          /\ Pos(last'.trace, "basic_qos") > 0
          /\ Pos(last'.trace, "queue_declare") < Pos(last'.trace, "basic_consume")
          /\ Pos(last'.trace, "basic_qos") < Pos(last'.trace, "basic_consume")]_vars

----------------------------------------------------------------------------
(* C16 *)

\* C16: stop_consuming() with no subscription (no stored tag) issues no
\* basic_cancel, raises nothing and changes nothing; with a stored tag on a
\* ready manager it issues exactly one basic_cancel, for the stored tag, and
\* forgets the subscription; a stop_consuming() that follows a
\* stop_consuming() immediately issues no basic_cancel and raises nothing.
C16_StopIdempotent ==
    [][Did("stop_consuming") =>
          /\ _consumer_tag = 0 =>
                /\ Count(last'.trace, "basic_cancel") = 0
                /\ last'.cancelled = <<>>
                /\ last'.exc = NoError
                /\ UNCHANGED <<subscription, consumers>>
          /\ _consumer_tag # 0 /\ _ready =>
                /\ Count(last'.trace, "basic_cancel") = 1
                /\ last'.cancelled = <<[tag |-> _consumer_tag, chan |-> _channel]>>
                /\ _consumer_tag' = 0 /\ ~_consuming'
          /\ last.op = "stop_consuming" =>
                /\ Count(last'.trace, "basic_cancel") = 0
                /\ last'.exc = NoError]_vars

\* stop_consuming() has cancelled the consumer of a ready subscriber
C16_Witness ==
    /\ last.op = "stop_consuming"
    /\ Count(last.trace, "basic_cancel") = 1
    /\ last.exc = NoError
    /\ _ready /\ _consumer_tag = 0 /\ ~_consuming
    /\ consumers[last.cancelled[1].tag].state = "cancelled"

----------------------------------------------------------------------------
(* C17 *)

Handler == "_handle_unacknowledged_messages"

\* C17: when the basic_cancel of stop_consuming() returns, the handler of
\* unacknowledged messages is invoked if and only if the returned list is
\* not empty, once, with that list, and before the consumer tag and the
\* consuming flag are cleared; a stop_consuming() whose cancel did not
\* return invokes no handler.
C17_UnackedHandledBeforeClear ==
    [][Did("stop_consuming") =>
          /\ Len(last'.returned) = 1 =>
                /\ Pos(last'.trace, Handler) > 0 <=> last'.returned[1] # <<>>
                /\ last'.returned[1] # <<>> =>
                      /\ Count(last'.trace, Handler) = 1
                      /\ last'.handled = <<last'.returned[1]>>
                      /\ Pos(last'.trace, Handler) < Pos(last'.trace, "clear")
                /\ Pos(last'.trace, "clear") > 0
                /\ _consumer_tag' = 0 /\ ~_consuming'
          /\ Len(last'.returned) = 0 => last'.handled = <<>>]_vars

\* stop_consuming() has handed pending messages to the handler
C17_Witness ==
    /\ last.op = "stop_consuming"
    /\ last.returned = <<Pending>>
    /\ last.handled = <<Pending>>
    /\ _consumer_tag = 0 /\ ~_consuming

----------------------------------------------------------------------------
(* C18 *)

\* the value just assigned to queue, and it being a non-empty string
Assigned == last'.call[1]
AssignedValid == Did("set_queue") /\ IsStr(Assigned) /\ Len(Assigned.s) > 0

\* C18: assigning a different valid queue name while a subscription is
\* active (tag stored and flag set) performs exactly one stop_consuming(),
\* and the field is updated after it (not at all when the stop raised);
\* assigning the current name performs no stop and leaves the subscription
\* and the broker's consumers as they were; assigning while idle only
\* updates the field and makes no broker call.
C18_QueueAssignment ==
    [][AssignedValid =>
          /\ Assigned # _queue /\ _consumer_tag # 0 /\ _consuming =>
                /\ Count(last'.trace, "stop_consuming") = 1
                /\ last'.exc = NoError =>
                      /\ _queue' = Assigned
                      /\ Pos(last'.trace, "stop_consuming")
                            < Pos(last'.trace, "set_queue")
                /\ last'.exc # NoError =>
                      _queue' = _queue /\ Pos(last'.trace, "set_queue") = 0
          /\ Assigned = _queue =>
                /\ Count(last'.trace, "stop_consuming") = 0
                /\ last'.cancelled = <<>>
                /\ UNCHANGED <<subscription, consumers>>
          /\ _consumer_tag = 0 \/ ~_consuming =>
                /\ last'.trace = <<"set_queue">>
                /\ last'.cancelled = <<>>
                /\ _queue' = Assigned
                /\ UNCHANGED <<_consumer_tag, _consuming, consumers>>]_vars

\* a different name has been assigned to a consuming subscriber: the
\* consumer was cancelled and the field holds the new name
C18_Witness ==
    /\ last.op = "set_queue"
    /\ Count(last.trace, "stop_consuming") = 1
    /\ Len(last.cancelled) = 1
    /\ consumers[last.cancelled[1].tag].queue # last.call[1]
    /\ consumers[last.cancelled[1].tag].state = "cancelled"
    /\ _queue = last.call[1]

----------------------------------------------------------------------------
(* C19 *)

\* C19: __enter__() returns the subscriber itself, and __exit__(), whether
\* the block ended normally or with an error and whatever stop_consuming()
\* does, runs stop_consuming() and then disconnect().
C19_ExitStopsThenDisconnects ==
    [][/\ Did("__enter__") => last'.ret = "self"
       /\ Did("__exit__") =>
             /\ Count(last'.trace, "stop_consuming") = 1
             /\ Count(last'.trace, "disconnect") = 1
             /\ Pos(last'.trace, "stop_consuming")
                   < Pos(last'.trace, "disconnect")]_vars

----------------------------------------------------------------------------
(* C20 *)

\* a consume() call is blocked in the receive loop of the channel on which
\* the stored consumer is registered and active
BlockedConsuming ==
    /\ _consumer_tag # 0
    /\ Active(_consumer_tag)
    /\ consumers[_consumer_tag].chan \in loops

\* C20: a stop_consuming() that is invoked while a consume() call is blocked
\* in the receive loop and that returns has cancelled the consumer at the
\* broker (so that the receive loop can return).
C20_StopReturnsAfterCancel ==
    [][Did("stop_consuming") /\ BlockedConsuming /\ last'.exc = NoError =>
          consumers'[_consumer_tag].state = "cancelled"]_vars

----------------------------------------------------------------------------
(* C30 *)

\* C30: assigning a non-string value to queue raises a TypeError and
\* assigning the empty string raises a ValueError; in both cases the queue
\* name is unchanged, no stop_consuming() is performed, and the consumer
\* tag, the consuming flag and the broker's consumers stay as they were.
C30_QueueRejection ==
    [][Did("set_queue") /\ (~IsStr(Assigned) \/ Len(Assigned.s) = 0) =>
          /\ ~IsStr(Assigned) =>
                last'.exc = Error("TypeError", "queue_name must be a string.")
          /\ IsStr(Assigned) =>
                last'.exc = Error("ValueError", "queue_name must not be empty.")
          /\ last'.trace = <<>>
          /\ last'.cancelled = <<>>
          /\ UNCHANGED <<subscription, consumers>>]_vars

\* the empty string has been assigned to the queue of a subscriber whose
\* consumer is active, and was rejected
C30_Witness ==
    /\ last.op = "set_queue"
    /\ last.call[1] = Str(<<>>)
    /\ last.exc.kind = "ValueError"
    /\ _queue # Str(<<>>)
    /\ _consuming /\ _consumer_tag # 0 /\ Active(_consumer_tag)

----------------------------------------------------------------------------
(* C21 *)

\* the step just taken was operation op of the health server
HDid(op) == hlast'.op = op /\ hops' = hops + 1

\* C21: a GET /health request is answered 200 "OK" if and only if the
\* readiness flag is true at that moment and 503 "Starting..." otherwise;
\* the flag is false after construction and only an assignment of the owner
\* changes it, so that every request before the first one gets 503.
C21_HealthIffReady ==
    [][/\ HDid("GET /health") =>
             IF ready THEN hlast'.code = 200 /\ hlast'.body = "OK"
             ELSE hlast'.code = 503 /\ hlast'.body = "Starting..."
       /\ hinst = "none" /\ hinst' = "ok" => ~ready'
       /\ hinst = "ok" /\ ready' # ready => HDid("ready")]_vars

\* GET /health has been answered 200 "OK" on a ready service
C21_Witness ==
    /\ hlast.op = "GET /health"
    /\ hlast.code = 200 /\ hlast.body = "OK"
    /\ ready

----------------------------------------------------------------------------
(* C22 *)

\* the step just taken answered the GET /status request at hand
Responds == request.pc # "idle" /\ request' = NoRequest

\* C22: the response code of GET /status is 503 when the handler finds
\* ready false, whatever status code is configured, and is the configured
\* status code when it finds ready true; the status field of the body is the
\* status message the handler read (None while none was set).
C22_StatusCode ==
    [][/\ request.pc = "status" /\ request'.pc # "status" =>
             request'.status = _status
       /\ Responds =>
             /\ hlast'.op = "GET /status"
             /\ hlast'.status = request.status
             /\ request.pc = "ready" => ~ready /\ hlast'.code = 503
             /\ request.pc = "code" => hlast'.code = _status_code.n
       /\ hinst = "none" /\ hinst' = "ok" => _status' = NoneV
       /\ hinst = "ok" /\ _status' # _status => HDid("status")]_vars

\* GET /status has been answered with the configured code 200 and the
\* message that was set, on a ready service
C22_Witness ==
    /\ hlast.op = "GET /status"
    /\ ready /\ _status_code = IntV(200) /\ hlast.code = 200
    /\ _status # NoneV /\ hlast.status = _status

----------------------------------------------------------------------------
(* C23 *)

\* the value just assigned to a property of the health server
HAssigned == hlast'.arg

\* C23: assigning a value that is not a bool to ready, or a value that is
\* not an int or is below 0 or above 599 to status_code, raises a
\* ValueError and leaves ready, status and status_code as they were.
C23_RejectedAssignment ==
    [][/\ HDid("ready") /\ HAssigned.t # "bool" =>
             /\ hlast'.exc = Error("ValueError", "ready must be a boolean.")
             /\ UNCHANGED <<ready, _status, _status_code>>
       /\ HDid("status_code")
          /\ (~IsInt(HAssigned) \/ HAssigned.n < 0 \/ HAssigned.n > 599) =>
             /\ hlast'.exc = Error("ValueError",
                                   "status_code should be valid HTTP status code.")
             /\ UNCHANGED <<ready, _status, _status_code>>]_vars

\* 600 has been assigned to status_code and was rejected: the code set
\* before is still there
C23_Witness ==
    /\ hlast.op = "status_code"
    /\ hlast.arg = IntV(600)
    /\ hlast.exc.kind = "ValueError"
    /\ _status_code = IntV(200)

----------------------------------------------------------------------------
(* C24 *)

\* C24: after an int v in 0..599 was assigned to status_code, reading
\* status_code gives v, and the value read is the response code GET /status
\* uses when ready is true.
C24_StatusCodeRoundTrip ==
    [][HDid("status_code") /\ HAssigned.t = "int"
       /\ HAssigned.n \in 0..599 =>
             /\ status_code' = HAssigned
             /\ status_code'.n = ResponseCode(TRUE, _status_code')]_vars

----------------------------------------------------------------------------
(* C25 *)

\* HealthCheckMixin(health_check_port) has just been called
Constructed == hinst = "none" /\ hlast'.op = "__init__"

\* C25: a health server constructed with health_check_port = None is
\* created without error, starts no listener and has ready true.
C25_DisabledServer ==
    [][Constructed /\ HAssigned = NoneV =>
          /\ hlast'.exc = NoError
          /\ hinst' = "ok"
          /\ ~listening'
          /\ ready']_vars

----------------------------------------------------------------------------
(* C26 *)

\* a number that is not positive; a number with a fractional part or a
\* string that is not a number
NonPositive(v) == v.t \in {"int", "bool", "float"} /\ v.n <= 0
NonIntegral(v) ==
    \/ v.t = "float" /\ v.n % 10 # 0
    \/ v.t = "str" /\ int(v).exc # NoError

\* C26: construction with a non-positive or a non-integral port raises the
\* 'must be a valid port number' ValueError and starts no listener.
C26_PortRejection ==
    [][Constructed /\ (NonPositive(HAssigned) \/ NonIntegral(HAssigned)) =>
          /\ hlast'.exc = PortError
          /\ hinst' = "rejected"
          /\ ~listening']_vars

----------------------------------------------------------------------------
(* C27 *)

\* C27: the (status message, response code) pair of a GET /status response
\* is a pair the fields of the health server stood for at one instant
\* between the arrival of the request and its response.
C27_ResponseIsSnapshot ==
    [][Responds => <<hlast'.status, hlast'.code>> \in held]_vars

----------------------------------------------------------------------------
(* C28 *)

\* the step just taken was a step of a request handler
HandlerStep == HDid("GET /health") \/ request' # request

\* C28: handling a GET /health or a GET /status request changes neither
\* ready, status, status_code nor the start time, and changes no state of
\* the connection or of the subscription.
C28_RequestsChangeNothing ==
    [][HandlerStep =>
          /\ UNCHANGED <<ready, _status, _status_code, _start_time, _health_port>>
          /\ UNCHANGED <<_connection, _channel, conns, params>>
          /\ UNCHANGED <<_queue, _consuming, _consumer_tag, consumers>>]_vars

\* GET /status has been answered on a service that is not ready and has a
\* status message and a status code of its own
C28_Witness ==
    /\ hlast.op = "GET /status"
    /\ hlast.code = 503
    /\ ~ready /\ _status # NoneV /\ _status_code # IntV(503)
    /\ _start_time = "set"

----------------------------------------------------------------------------
(* C29 *)

\* _get_session_id_from_properties has just been called
SessionCalled == ncalls' = ncalls + 1

\* the headers of the properties it was called with
Headers == properties.headers

\* C29: for a BasicProperties object _get_session_id_from_properties never
\* raises; it returns None when the headers are None or empty, when they
\* have no 'session_id', or when its value is falsy, and otherwise the
\* value as a string ("abc" stays "abc", 1234 gives "1234"); for None or a
\* bare mapping in place of the properties it raises a TypeError.
C29_SessionId ==
    [][SessionCalled =>
          /\ properties.type = "BasicProperties" =>
                /\ slast'.exc = NoError
                /\ (~Headers.given \/ Headers.session_id = Absent
                    \/ Headers.session_id \in
                          {Str(<<>>), NoneV, IntV(0), BoolV(FALSE), ListV}) =>
                      slast'.ret = NoneV
                /\ Headers.session_id = Str(<<"a", "b", "c">>) =>
                      slast'.ret = Str(<<"a", "b", "c">>)
                /\ Headers.session_id = IntV(1234) =>
                      slast'.ret = Str(<<"1", "2", "3", "4">>)
                /\ Headers.session_id = IntV(-7) =>
                      slast'.ret = Str(<<"-", "7">>)
                /\ Headers.session_id = FloatV(15) =>
                      slast'.ret = Str(<<"1", ".", "5">>)
                /\ Headers.session_id = BoolV(TRUE) =>
                      slast'.ret = Str(<<"T", "r", "u", "e">>)
          /\ properties.type # "BasicProperties" =>
                slast'.exc.kind = "TypeError"]_vars

\* the session id 1234 has been returned as the string "1234"
C29_Witness ==
    /\ slast.properties.type = "BasicProperties"
    /\ slast.properties.headers.session_id = IntV(1234)
    /\ slast.ret = Str(<<"1", "2", "3", "4">>)
    /\ slast.exc = NoError

----------------------------------------------------------------------------
(* C31 *)

\* the consume() call of the step started a subscription: basic_consume
\* returned and the call went on into start_consuming()
Started == Did("consume") /\ last'.ret = "blocked"

\* the message handler consume() is to register for its call
HandlerGiven ==
    IF ConsumeArgs.callback = "None" THEN "_callback" ELSE ConsumeArgs.callback

\* C31: each consume() call that starts a subscription registers with the
\* broker exactly the subscriber's current queue name, the auto_ack flag it
\* was given and, as message handler, the caller's callback when one is
\* given and otherwise _callback; afterwards the subscriber holds the
\* consumer tag the broker returned and is marked as consuming.
C31_ConsumeRegisters ==
    [][Started =>
          /\ last'.registered =
                <<[queue |-> _queue, on_message_callback |-> HandlerGiven,
                   auto_ack |-> ConsumeArgs.auto_ack]>>
          /\ Count(last'.trace, "basic_consume") = 1
          /\ ntags' = ntags + 1
          /\ _consumer_tag' = ntags'
          /\ consumers[ntags'].state = "none"
          /\ consumers'[ntags'] =
                [state |-> "registered", chan |-> _channel, queue |-> _queue,
                 callback |-> HandlerGiven, auto_ack |-> ConsumeArgs.auto_ack]
          /\ _consuming'
          /\ _queue' = _queue]_vars

\* a consume() call with auto_ack and a callback of the caller has started
\* a subscription on the second queue name
C31_Witness ==
    /\ last.op = "consume"
    /\ last.ret = "blocked"
    /\ last.call[1].auto_ack
    /\ last.call[1].callback = "custom"
    /\ _queue = Str(<<"q", "2">>)
    /\ _consuming
    /\ _consumer_tag # 0
    /\ Active(_consumer_tag)
    /\ consumers[_consumer_tag].callback = "custom"

----------------------------------------------------------------------------
(* C32 *)

\* C32: in every reachable state of a subscriber, from construction onward,
\* its queue name is a non-empty string.
C32_QueueNonEmptyString == IsStr(_queue) /\ Len(_queue.s) > 0

----------------------------------------------------------------------------
(* C33 *)

\* C33: whenever a connect() call does not return true (it returns false or
\* raises, also when the setup hook raises and when the manager was
\* connected before the call), _ready() is false immediately afterwards.
C33_FailedConnectNotReady ==
    [][Did("connect") /\ last'.ret # "True" => ~_ready']_vars

----------------------------------------------------------------------------
(* C34 *)

\* the connections the manager has opened that are open at the broker
OpenConnections == {c \in ConnIds : conns[c].created /\ conns[c].is_open}

\* C34: at most one connection opened by the manager is open at any time:
\* every connection it has opened is the one it currently references or is
\* closed, so a repeated connect() leaves no earlier connection open and
\* out of the reach of disconnect().
C34_OneOpenConnection ==
    /\ Cardinality(OpenConnections) <= 1
    /\ \A c \in OpenConnections : c = _connection

----------------------------------------------------------------------------
(* C35 *)

\* C35: after every stop_consuming() call, whether it returns or raises and
\* whether or not the manager is ready at the call, the subscriber is
\* inactive: the consuming flag is false and the consumer tag is none.
C35_StopLeavesInactive ==
    [][Did("stop_consuming") => ~_consuming' /\ _consumer_tag' = 0]_vars

----------------------------------------------------------------------------
(* C36 *)

\* the consume(restart_if_running=False) call of the step was made on a
\* ready manager and returned without calling basic_consume
Skipped ==
    /\ Did("consume")
    /\ _ready
    /\ ~ConsumeArgs.restart_if_running
    /\ last'.exc = NoError
    /\ last'.registered = <<>>

\* a consumer registered by the subscriber is active on its current channel
ActiveOnChannel == \E t \in ActiveConsumers : consumers[t].chan = _channel

\* C36: on a ready manager, consume(restart_if_running=False) returns
\* without registering a consumer only if a consumer registered by the
\* instance is active on the manager's current channel; a consuming flag
\* left over from a subscription whose connection was closed, replaced or
\* failed never causes a later consume() to be skipped.
C36_SkipOnlyWhenActive == [][Skipped => ActiveOnChannel]_vars

----------------------------------------------------------------------------
(* C37 *)

\* C37: at every boundary between the subscriber's operations (after
\* construction and after each consume(), stop_consuming(), queue
\* assignment or managed-block exit, returned or raised), the consuming
\* flag is true if and only if the consumer tag is not none.
C37_FlagIffTag == _consuming <=> _consumer_tag # 0

\* a restarting consume() has cancelled the earlier consumer and then
\* raised out of basic_consume: both fields are cleared
C37_Witness ==
    /\ last.op = "consume"
    /\ last.exc.kind = "AMQPChannelError"
    /\ last.cancelled # <<>>
    /\ ~_consuming
    /\ _consumer_tag = 0

----------------------------------------------------------------------------
(* C38 *)

\* C38: consume() called on a ready manager with a callback that is neither
\* callable nor None raises a TypeError and leaves the subscription as it
\* was: no basic_consume is issued and an active subscription is neither
\* stopped nor cancelled, for either value of restart_if_running.
C38_BadCallbackChangesNothing ==
    [][Did("consume") /\ _ready /\ ConsumeArgs.callback = "not_callable" =>
          /\ last'.exc.kind = "TypeError"
          /\ last'.registered = <<>>
          /\ last'.cancelled = <<>>
          /\ Count(last'.trace, "stop_consuming") = 0
          /\ UNCHANGED <<subscription, consumers>>]_vars

----------------------------------------------------------------------------
(* C39 *)

\* C39: in an ear the health ready flag and the broker readiness are
\* independent: publish() is permitted exactly when the connection and the
\* channel are open (it reaches the broker after a successful connect() and
\* raises the 'not connected' RuntimeError before it), whatever the health
\* flag holds, and connect() and disconnect() never change the health flag.
C39_ReadinessIndependent ==
    [][/\ Did("publish") =>
             /\ last'.sent # <<>> <=> _ready
             /\ ~_ready =>
                   last'.exc = Error("RuntimeError",
                       "RabbitMQProducer is not connected. Call connect() first.")
       /\ Did("connect") \/ Did("disconnect") => ready' = ready]_vars

----------------------------------------------------------------------------
(* C40 *)

\* C40: every GET /status request the listener handles, at any time after
\* the listener thread was started (also while the constructor is still
\* running), is answered with a body that carries the uptime measured from
\* construction; no request is handled before the start time is set.
C40_UptimeAlwaysAnswered ==
    [][/\ request'.pc # "idle" => _start_time' = "set"
       /\ Responds =>
             /\ hlast'.op = "GET /status"
             /\ hlast'.exc = NoError
             /\ hlast'.body = "json"]_vars

====
